---------------------------- MODULE Spec2Model ----------------------------
(***************************************************************************)
(* State machine of server/gemini_proxy.py: a single-threaded HTTP worker  *)
(* that drives one Playwright browser session.  The globals of the module  *)
(* (browser handles, message_count) are the state; every request handler   *)
(* is a chain of steps (pc) because each Playwright call is a point where  *)
(* the page answers, raises, or a signal arrives.                          *)
(***************************************************************************)
EXTENDS Integers, Sequences, FiniteSets, TLC

VARIABLES
    proc,                 \* "starting" | "serving" | "exit_auth" | "exit_signal" | "exit_crash"
    pc,                   \* position of the main thread: "main", "idle", or a step of a handler
    sig,                  \* "none" | "cleanup": signal_handler is running cleanup_browser
    pending,              \* connections waiting in the listen queue
    active,               \* request handlers started and not yet returned
    args,                 \* the command line: [profile_dir, proxy] (proxy "None": no proxy)
    profile_dir_global,   \* "None" | the profile directory init_browser was last given
    proxy_server_global,  \* "None" | the proxy init_browser was last given
    launched_with,        \* [profile_dir, proxy] the browser session in being was launched with
    sessions,             \* browser sessions launched by this process and not torn down
    playwright_instance,  \* "none" | "live"
    browser_context,      \* "none" | "live"
    browser_page,         \* "none" | "live" | "dead" (handle set, page/browser gone)
    message_count,        \* exchanges since the last reset
    init_result,          \* outcome of the init_browser call made by this step chain
    rotation,             \* "none" | "ok" | "failed": automatic rotation of the current send
    waited,               \* locals of wait_for_response_complete
    generation_started,
    last_text_length,
    stable_count,
    since_stop,           \* polls since a stop button was last seen visible (capped)
    det_result,           \* "none" | "complete" | "no_response" | "timeout"
    reply,                \* what the last finished handler returned
    lookups,              \* find_input_element calls made by the current send
    reloads,              \* reload navigations made by the current send
    editor,               \* "untouched" | "message": what this send put in the input surface
    submits,              \* submissions (button click or Enter) made by the current send
    send_btn,             \* step 5: "none" | "clicked" | "click_failed" | "absent"
    sent_by,              \* step 5: "none" | "button" | "enter", what submitted
    count_before,         \* message_count when the current request was taken up
    extracted,            \* what the page held at each get_latest_response_text call of step 7
    response_text,        \* local of the send and of chat_completions: the reply text
    script,               \* scripted text-length samples (detector harness only)
    script_above,         \* scripted "container count above baseline" (harness only)
    message_text,         \* the message handed to the content assignment (harness only)
    editor_html,          \* innerHTML assigned to the editor (harness only)
    gen,                  \* position of chat_completions.generate (harness only)
    chunk_i,              \* loop variable i of generate (harness only)
    stream                \* what generate has yielded so far (harness only)

vars == <<proc, pc, sig, pending, active, args, profile_dir_global,
          proxy_server_global, launched_with, sessions, playwright_instance,
          browser_context, browser_page, message_count, init_result, rotation,
          waited, generation_started, last_text_length, stable_count, since_stop,
          det_result, reply, lookups, reloads, editor, submits, send_btn,
          sent_by, count_before, extracted, response_text,
          script, script_above, message_text, editor_html, gen, chunk_i, stream>>

handles  == <<playwright_instance, browser_context, browser_page>>
detector == <<waited, generation_started, last_text_length, stable_count, since_stop>>
harness  == <<script, script_above, message_text, editor_html, gen, chunk_i, stream>>
sendobs  == <<lookups, reloads, editor, submits, send_btn, sent_by, count_before,
              extracted, response_text>>
session  == <<args, profile_dir_global, proxy_server_global, launched_with, sessions>>
server   == <<proc, pc, sig, pending, active, handles, session, message_count,
              init_result, rotation, detector, det_result, reply>>

-----------------------------------------------------------------------------
(* Program constants *)

MAX_MESSAGES_PER_CHAT == 10
max_wait == 120
StableNeeded == 3
NoResponseAfter == 30
SampleAfter == 5
chunk_size == 50

(* Bounds of the model *)

MaxPending == 1
MaxScriptLen == 8
MaxImages == 1
MaxTextLen == 120
MaxMsgLen == 4

\* Text lengths a sample of the latest reply can have (0: no text).
Lens == {0, 5, 12}

NoReply == [op |-> "none", res |-> "none", err |-> "none"]

InitOutcomes == {"ok", "auth_expired", "fail_start", "fail_launch", "fail_goto"}

-----------------------------------------------------------------------------
(* cleanup_browser: the three handles are set to None whatever close() does *)

\* No browser session: what launched_with holds when none is in being.
NoLaunch == [profile_dir |-> "None", proxy |-> "None"]

\* The command lines: --profile-dir is required; the proxy is that of --proxy
\* or of the environment, or None.
Args == [profile_dir : {"profile"}, proxy : {"None", "proxy"}]

\* Variant: the session in being is left running.
SessionsKept(n) == n

\* browser_context.close(), playwright_instance.stop(): the session is ended
SessionsAfterCleanup(n) == 0

cleanup_browser ==
    /\ playwright_instance' = "none"
    /\ browser_context' = "none"
    /\ browser_page' = "none"
    /\ sessions' = SessionsAfterCleanup(sessions)
    /\ launched_with' = NoLaunch

\* launch_persistent_context(user_data_dir = profile_dir, proxy = proxy_server)
\* returns, after the cleanup init_browser begins with.
Launched(profile_dir, proxy_server) ==
    /\ sessions' = SessionsAfterCleanup(sessions) + 1
    /\ launched_with' = [profile_dir |-> profile_dir, proxy |-> proxy_server]

\* Variant: the unauthenticated branch returns instead of exiting.
ExitsProcessNever(o) == FALSE

\* The unauthenticated branch of init_browser ends in sys.exit(1); SystemExit
\* is no Exception, so no except clause of the handlers stops it.
ExitsProcess(o) == o = "auth_expired"

(* init_browser(profile_dir, proxy): cleanup, start Playwright, launch the  *)
(* persistent context, take the page, goto, check title/url.  o is what the *)
(* environment makes of it: an exception at one of the calls leaves the     *)
(* handles assigned so far; the sign-in page leads to cleanup and exit.     *)
init_browser(o, profile_dir, proxy_server) ==
    /\ init_result' = o
    /\ profile_dir_global' = profile_dir
    /\ proxy_server_global' = proxy_server
    /\ UNCHANGED args
    /\ CASE o = "ok"           -> /\ playwright_instance' = "live"
                                  /\ browser_context' = "live"
                                  /\ browser_page' = "live"
                                  /\ Launched(profile_dir, proxy_server)
         [] o = "auth_expired" -> cleanup_browser
         [] o = "fail_start"   -> cleanup_browser
         [] o = "fail_launch"  -> /\ playwright_instance' = "live"
                                  /\ browser_context' = "none"
                                  /\ browser_page' = "none"
                                  /\ sessions' = SessionsAfterCleanup(sessions)
                                  /\ launched_with' = NoLaunch
         [] o = "fail_goto"    -> /\ playwright_instance' = "live"
                                  /\ browser_context' = "live"
                                  /\ browser_page' = "live"
                                  /\ Launched(profile_dir, proxy_server)

\* Variant: only a page that was never opened counts as not answering.
PingOkUnlessNone == browser_page # "none"

\* browser_page.title() answers only on a live page (None or a dead page raise).
PingOk == browser_page = "live"

-----------------------------------------------------------------------------
(* Returning from a handler *)

Finish(r) ==
    /\ pc' = "idle"
    /\ active' = active - 1
    /\ reply' = r
    /\ proc' = proc

\* The handler goes on to its next step.
Continue(next) ==
    /\ pc' = next
    /\ UNCHANGED <<proc, active, reply>>

ChatError(e) == [op |-> "chat", res |-> "error", err |-> e]

\* The routes answer an error result with status 500, anything else with 200.
HttpStatus(r) == IF r.res = "error" THEN 500 ELSE 200

\* The error texts that name the login state: the "input not found" text ("check
\* the login state or run login.sh to log in again") and the extraction text
\* ("login expired"); the other texts do not.
MentionsLogin(e) == e \in {"input_not_found", "extraction_failed"}

\* Variant: the exception is not caught and ends the process.
SendRaisedCrashes ==
    /\ proc' = "exit_crash"
    /\ UNCHANGED <<pc, active, reply>>

\* except Exception in send_message_to_gemini: the error is returned.
SendRaised == Finish(ChatError("exception"))

-----------------------------------------------------------------------------
(* main(): init_browser before app.run *)

main_init_browser ==
    /\ proc = "starting" /\ pc = "main" /\ sig = "none"
    /\ \E o \in InitOutcomes :
          /\ init_browser(o, args.profile_dir, args.proxy)
          /\ IF o = "ok"
                THEN proc' = "serving" /\ pc' = "idle"
                ELSE /\ pc' = pc
                     /\ proc' = IF ExitsProcess(o) THEN "exit_auth" ELSE "exit_crash"
    /\ UNCHANGED <<sig, pending, active, message_count, rotation, detector,
                   det_result, reply, harness, sendobs>>

(* Clients connect at any time; the connection waits until it is served. *)
Arrive ==
    /\ proc = "serving" /\ sig = "none"
    /\ pending < MaxPending
    /\ pending' = pending + 1
    /\ UNCHANGED <<proc, pc, sig, active, handles, session, message_count, init_result,
                   rotation, detector, det_result, reply, harness, sendobs>>

\* Variant: the server dispatches each request on a thread of its own.
threadedOn == TRUE

\* app.run(..., threaded=False)
threaded == FALSE

\* The server takes the next connection when no handler runs (or always, if threaded).
WorkerFree == threaded \/ active = 0

Entry(op) == CASE op = "chat" -> "ensure"
               [] op = "new_chat" -> "new_chat"
               [] op = "health" -> "health"

StartRequest ==
    /\ proc = "serving" /\ sig = "none"
    /\ pending > 0
    /\ WorkerFree
    /\ \E op \in {"chat", "new_chat", "health"} : pc' = Entry(op)
    /\ pending' = pending - 1
    /\ active' = active + 1
    /\ reply' = NoReply
    /\ det_result' = "none"
    /\ rotation' = "none"
    /\ init_result' = "none"
    /\ lookups' = 0
    /\ reloads' = 0
    /\ editor' = "untouched"
    /\ submits' = 0
    /\ send_btn' = "none"
    /\ sent_by' = "none"
    /\ count_before' = message_count
    /\ extracted' = <<>>
    /\ response_text' = <<>>
    /\ UNCHANGED <<proc, sig, handles, session, message_count, detector, harness>>

-----------------------------------------------------------------------------
(* send_message_to_gemini, step 0: ensure_browser *)

ensure_browser ==
    /\ proc = "serving" /\ sig = "none" /\ pc = "ensure"
    /\ IF PingOk
          THEN /\ Continue("rotate")
               /\ UNCHANGED <<handles, session, init_result>>
          ELSE \E o \in InitOutcomes :
                  /\ init_browser(o, profile_dir_global, proxy_server_global)
                  /\ IF ExitsProcess(o)
                        THEN /\ proc' = "exit_auth"
                             /\ UNCHANGED <<pc, active, reply>>
                        ELSE IF o = "ok"
                                THEN Continue("rotate")
                                ELSE Finish(ChatError("browser_unavailable"))
    /\ UNCHANGED <<sig, pending, message_count, rotation, detector, det_result,
                   harness, sendobs>>

-----------------------------------------------------------------------------
(* Automatic rotation: if message_count >= MAX_MESSAGES_PER_CHAT the send   *)
(* calls create_new_chat_internal() and sets message_count = 0.             *)

\* Variant: the comparison is strict.
NeedsRotationAfter(c) == c > MAX_MESSAGES_PER_CHAT

NeedsRotation(c) == c >= MAX_MESSAGES_PER_CHAT

\* Variant: the count survives the rotation.
CountAfterRotationKept(c) == c

\* message_count = 0, whatever create_new_chat_internal returned
CountAfterRotation(c) == 0

\* create_new_chat_internal: goto + find_input_element; False iff goto raises.
\* A goto on a page that is gone always raises; on a live page it may time out.
NavOutcomes == IF browser_page = "live" THEN {TRUE, FALSE} ELSE {FALSE}

rotate ==
    /\ proc = "serving" /\ sig = "none" /\ pc = "rotate"
    /\ IF NeedsRotation(message_count)
          THEN \E ok \in NavOutcomes :
                  /\ rotation' = IF ok THEN "ok" ELSE "failed"
                  /\ message_count' = CountAfterRotation(message_count)
          ELSE UNCHANGED <<rotation, message_count>>
    /\ Continue("find_input")
    /\ init_result' = "none"
    /\ UNCHANGED <<sig, pending, handles, session, detector, det_result, harness, sendobs>>

(* 1. find_input_element(); if None: goto (reload), sleep, find again;      *)
(*    if still None: return the "input not found" error.                    *)
FoundOutcomes == IF browser_page = "live" THEN {TRUE, FALSE} ELSE {FALSE}

\* Variant: the lookup is not repeated after the reload.
LookupsNotRepeated(n) == n

\* find_input_element() is called once more once the reload has returned.
LookupsAfterReload(n) == n + 1

find_input ==
    /\ proc = "serving" /\ sig = "none" /\ pc = "find_input"
    /\ \E first \in FoundOutcomes :
          IF first
             THEN /\ Continue("inject")
                  /\ lookups' = 1 /\ reloads' = 0
             ELSE \E reload \in NavOutcomes :
                     IF ~reload
                        THEN /\ SendRaised
                             /\ lookups' = 1 /\ reloads' = 1
                        ELSE \E second \in FoundOutcomes :
                                /\ lookups' = LookupsAfterReload(1)
                                /\ reloads' = 1
                                /\ IF second
                                      THEN Continue("inject")
                                      ELSE Finish(ChatError("input_not_found"))
    /\ UNCHANGED <<sig, pending, handles, session, message_count, init_result, rotation,
                   detector, det_result, harness, editor, submits, send_btn,
                   sent_by, count_before, extracted,
                   response_text>>

(* 2.-4. count_existing_responses, click, clear, assign content (or type).  *)
(* Every Playwright call on the element raises when the page is gone, and   *)
(* may raise on a live page; the exception reaches the outer except.        *)
CallOutcomes == IF browser_page = "live" THEN {TRUE, FALSE} ELSE {FALSE}

\* What step 4 comes to.  "assigned": the script found the editor node and set
\* its innerHTML; "nomatch": the script ran, document.querySelector returned
\* null, nothing was assigned and nothing was raised; "typed": evaluate raised
\* and input_element.type put the text in; "raised": a click, or the typing
\* after a failed evaluate, raised.
InjectOutcomes == IF browser_page = "live"
                     THEN {"assigned", "nomatch", "typed", "raised"}
                     ELSE {"raised"}

\* The content of the input surface after step 4.
EditorAfter(o) == IF o \in {"assigned", "typed"} THEN "message" ELSE "untouched"

inject ==
    /\ proc = "serving" /\ sig = "none" /\ pc = "inject"
    /\ \E o \in InjectOutcomes :
          /\ editor' = EditorAfter(o)
          /\ IF o = "raised" THEN SendRaised
                             ELSE Continue("dispatch")
    /\ UNCHANGED <<sig, pending, handles, session, message_count, init_result, rotation,
                   detector, det_result, harness, lookups, reloads, submits,
                   send_btn, sent_by, count_before,
                   extracted, response_text>>

(* 5. find_send_button; click, or press Enter (one of the two submits what  *)
(* the input surface holds, which the page then empties); then sleep(3) and *)
(* enter wait_for_response_complete with its locals initialised.            *)
\* What step 5 meets.  btn: find_send_button() returns no button ("absent":
\* none visible, or every query raised), or a button whose click() returns
\* ("clicked") or raises ("click_failed"); enter: whether
\* input_element.press("Enter") would return.  On a page that is gone no
\* button is found and the key press raises.
DispatchOutcomes ==
    IF browser_page = "live"
       THEN [btn : {"clicked", "click_failed", "absent"}, enter : BOOLEAN]
       ELSE {[btn |-> "absent", enter |-> FALSE]}

\* Variant: a click that raises is not followed by the Enter key.
SentByNoFallback(o) ==
    IF o.btn = "clicked" THEN "button"
    ELSE IF o.btn = "absent" /\ o.enter THEN "enter" ELSE "none"

\* if send_btn: try click, except: press Enter; else: press Enter
SentBy(o) ==
    IF o.btn = "clicked" THEN "button"
    ELSE IF o.enter THEN "enter" ELSE "none"

\* The key press is made and raises: the exception leaves the send.
DispatchRaises(o) == o.btn # "clicked" /\ ~o.enter

dispatch ==
    /\ proc = "serving" /\ sig = "none" /\ pc = "dispatch"
    /\ \E o \in DispatchOutcomes :
          /\ send_btn' = o.btn
          /\ sent_by' = SentBy(o)
          /\ IF DispatchRaises(o)
                THEN /\ SendRaised
                     /\ UNCHANGED <<detector, submits, editor, lookups, reloads>>
                ELSE /\ Continue("wait")
                     /\ submits' = submits + (IF SentBy(o) = "none" THEN 0 ELSE 1)
                     /\ editor' = "untouched"
                     /\ lookups' = 0
                     /\ reloads' = 0
                     /\ waited' = 0
                     /\ generation_started' = FALSE
                     /\ last_text_length' = 0
                     /\ stable_count' = 0
                     /\ since_stop' = StableNeeded
    /\ UNCHANGED <<sig, pending, handles, session, message_count, init_result,
                   rotation, det_result, harness, count_before, extracted,
                   response_text>>

-----------------------------------------------------------------------------
(* get_latest_response_text(): one evaluate collects the visible text blocks *)
(* and the <img> elements of the last reply container; each image is then   *)
(* appended to the text according to its src.  A text is modelled as the     *)
(* sequence of its parts.                                                    *)

\* blob_ok: a blob: image the canvas conversion turns into a data URL;
\* blob_empty: a blob: image for which the script resolves ''; blob_raise: a
\* blob: image whose evaluate raises; http: an http(s) src; other: any other
\* src (data:, file:, ...).
ImageKinds == {"blob_ok", "blob_empty", "blob_raise", "http", "other"}

ImageSeqs == UNION {[1..n -> ImageKinds] : n \in 0..MaxImages}

\* What the page holds when it is asked: ok = FALSE when the first evaluate
\* raises (always so on a page that is gone); text: some visible text block.
NoPage == [ok |-> FALSE, text |-> FALSE, images |-> <<>>]
Pages == IF browser_page = "live"
            THEN {NoPage} \cup [ok : {TRUE}, text : BOOLEAN, images : ImageSeqs]
            ELSE {NoPage}

\* Variant: an image that cannot be resolved leaves nothing in the text.
ImagePartDropsFailures(k) ==
    CASE k = "blob_ok"    -> <<"img_data">>
      [] k = "http"       -> <<"img_http">>
      [] OTHER            -> <<>>

\* What is appended for one image: the inline data URL of the canvas, one of
\* the two bracketed notices, the image's own URL, or nothing.
ImagePart(k) ==
    CASE k = "blob_ok"    -> <<"img_data">>
      [] k = "blob_empty" -> <<"notice_unavailable">>
      [] k = "blob_raise" -> <<"notice_failed">>
      [] k = "http"       -> <<"img_http">>
      [] OTHER            -> <<>>

RECURSIVE ImageParts(_)
ImageParts(imgs) ==
    IF imgs = <<>> THEN <<>>
                   ELSE ImagePart(Head(imgs)) \o ImageParts(Tail(imgs))

get_latest_response_text(p) ==
    IF ~p.ok THEN <<>>
             ELSE (IF p.text THEN <<"text">> ELSE <<>>) \o ImageParts(p.images)

\* Variant: an empty first extraction is final.
RetryNever(t) == FALSE

\* if not response_text: sleep(3) and extract once more
RetryNeeded(t) == t = <<>>

-----------------------------------------------------------------------------
(* 6. wait_for_response_complete(existing_count, max_wait=120)              *)

\* Variant: one more pass of the loop.
LoopContinuesInclusive(w) == w <= max_wait

\* while waited < max_wait
LoopContinues(w) == w < max_wait

\* Variant: two unchanged samples are enough.
StableReachedEarly(s) == s >= StableNeeded - 1

\* if stable_count >= 3: return True
StableReached(s) == s >= StableNeeded

\* Variant: the escape hatch opens one poll earlier.
NoResponseEarly(w, gs, lt) == w >= NoResponseAfter /\ ~gs /\ lt = 0

\* if waited > 30 and not generation_started and last_text_length == 0
NoResponse(w, gs, lt) == w > NoResponseAfter /\ ~gs /\ lt = 0

\* Variant: a visible stop button leaves the count of stable samples alone.
StableAfterStopKept(sc) == sc

\* if stop_btn: ... stable_count = 0
StableAfterStop(sc) == 0

\* Variant: a sample of another length does not reset the count.
NextStableKept(same, sc) == IF same THEN sc + 1 ELSE sc

\* if current_length == last_text_length: stable_count += 1, else: stable_count = 0
NextStable(same, sc) == IF same THEN sc + 1 ELSE 0

(* One pass of the loop body.  above: count_existing_responses() >          *)
(* existing_count; stop: a stop button is visible; len: length of           *)
(* get_latest_response_text() (0 for None or "").  The result says how      *)
(* the pass ends: "none" (next pass), or the value returned.                *)
DetStep(above, stop, len) ==
    LET w   == waited + 1
        gs1 == generation_started \/ above
        ends(w2) == IF LoopContinues(w2) THEN "none" ELSE "timeout"
    IN  IF stop
           THEN [w |-> w, gs |-> TRUE, lt |-> last_text_length,
                 sc |-> StableAfterStop(stable_count), res |-> ends(w)]
           ELSE LET sampled == (gs1 \/ w > SampleAfter) /\ len > 0
                    same    == sampled /\ len = last_text_length
                    sc1     == IF sampled
                                  THEN NextStable(same, stable_count)
                                  ELSE stable_count
                    lt1     == IF sampled THEN len ELSE last_text_length
                IN  IF same /\ StableReached(sc1)
                       THEN [w |-> w, gs |-> gs1, lt |-> last_text_length,
                             sc |-> sc1, res |-> "complete"]
                       ELSE IF NoResponse(w, gs1, lt1)
                               THEN [w |-> w, gs |-> gs1, lt |-> lt1, sc |-> sc1,
                                     res |-> "no_response"]
                               ELSE [w |-> w, gs |-> gs1, lt |-> lt1, sc |-> sc1,
                                     res |-> ends(w)]

WaitTick(above, stop, len) ==
    LET d == DetStep(above, stop, len)
    IN  /\ waited' = d.w
        /\ generation_started' = d.gs
        /\ last_text_length' = d.lt
        /\ stable_count' = d.sc
        /\ since_stop' = IF stop THEN 0
                         ELSE IF since_stop < StableNeeded THEN since_stop + 1
                              ELSE since_stop
        /\ det_result' = d.res
        /\ pc' = IF d.res = "none" THEN "wait" ELSE "extract"

\* What one poll can see: anything on a live page; on a page that is gone every
\* query raises and is swallowed (count 0, no stop button, empty text).
Signals == IF browser_page = "live"
              THEN [above : BOOLEAN, stop : BOOLEAN, len : Lens]
              ELSE {[above |-> FALSE, stop |-> FALSE, len |-> 0]}

\* One poll.  What step 5 met is of no use to the wait, which does not get it:
\* the two observations of step 5 are dropped here.
wait_for_response_complete ==
    /\ proc = "serving" /\ sig = "none" /\ pc = "wait"
    /\ \E s \in Signals : WaitTick(s.above, s.stop, s.len)
    /\ send_btn' = "none"
    /\ sent_by' = "none"
    /\ UNCHANGED <<proc, sig, pending, active, handles, session, message_count,
                   init_result, rotation, reply, harness, lookups, reloads,
                   editor, submits, count_before, extracted, response_text>>

(* 7. The value returned by the wait is not used.  get_latest_response_text *)
(* (never raises: "" on any exception); if empty, sleep(3) and once more;   *)
(* if empty, the extraction error; else message_count += 1 and the content. *)
\* Variant: the count goes up whether or not a text was extracted.
CountAfterSendAlways(ok, c) == c + 1

\* message_count += 1, after the return of the extraction error
CountAfterSend(ok, c) == IF ok THEN c + 1 ELSE c

\* The end of the send, with the text step 7 is left with.
Returned(t) ==
    /\ response_text' = t
    /\ IF Len(t) > 0
          THEN Finish([op |-> "chat", res |-> "content", err |-> "none"])
          ELSE Finish(ChatError("extraction_failed"))
    /\ message_count' = CountAfterSend(Len(t) > 0, message_count)

extract ==
    /\ proc = "serving" /\ sig = "none" /\ pc = "extract"
    /\ \E p1 \in Pages :
          LET t1 == get_latest_response_text(p1)
          IN  IF RetryNeeded(t1)
                 THEN \E p2 \in Pages :
                         LET t2 == get_latest_response_text(p2)
                         IN  /\ extracted' = <<[page |-> p1, text |-> t1],
                                               [page |-> p2, text |-> t2]>>
                             /\ Returned(t2)
                 ELSE /\ extracted' = <<[page |-> p1, text |-> t1]>>
                      /\ Returned(t1)
    /\ waited' = 0
    /\ generation_started' = FALSE
    /\ last_text_length' = 0
    /\ stable_count' = 0
    /\ since_stop' = StableNeeded
    /\ UNCHANGED <<sig, pending, handles, session, init_result, rotation, det_result,
                   harness, lookups, reloads, editor, submits, send_btn, sent_by,
                   count_before>>

-----------------------------------------------------------------------------
(* POST /v1/chat/completions/new: create_new_chat() without ensure_browser; *)
(* message_count = 0 only if create_new_chat_internal() returned True.      *)
\* Variant: the count is cleared whatever the navigation did.
CountAfterNewChatCleared(ok, c) == 0

\* if success: message_count = 0
CountAfterNewChat(ok, c) == IF ok THEN 0 ELSE c

new_chat ==
    /\ proc = "serving" /\ sig = "none" /\ pc = "new_chat"
    /\ \E ok \in NavOutcomes :
          /\ message_count' = CountAfterNewChat(ok, message_count)
          /\ IF ok
                THEN Finish([op |-> "new_chat", res |-> "ok", err |-> "none"])
                ELSE Finish([op |-> "new_chat", res |-> "error",
                             err |-> "new_chat_failed"])
    /\ UNCHANGED <<sig, pending, handles, session, init_result, rotation, detector,
                   det_result, harness, sendobs>>

(* GET /health: title() on the page if there is one; never an error. *)
health_check ==
    /\ proc = "serving" /\ sig = "none" /\ pc = "health"
    /\ Finish([op |-> "health",
               res |-> IF PingOk THEN "ok" ELSE "degraded",
               err |-> "none"])
    /\ UNCHANGED <<sig, pending, handles, session, message_count, init_result, rotation,
                   detector, det_result, harness, sendobs>>

(* The browser or its page can go away at any moment. *)
BrowserCrash ==
    /\ proc = "serving" /\ sig = "none"
    /\ browser_page = "live"
    /\ browser_page' = "dead"
    /\ UNCHANGED <<proc, pc, sig, pending, active, playwright_instance,
                   browser_context, session, message_count, init_result,
                   rotation, detector, det_result, reply, harness, sendobs>>

(* SIGINT/SIGTERM: signal_handler runs on the main thread between two       *)
(* bytecodes of whatever it was executing: cleanup_browser(), sys.exit(0).  *)
signal_handler ==
    /\ proc \in {"starting", "serving"} /\ sig = "none"
    /\ sig' = "cleanup"
    /\ UNCHANGED <<proc, pc, pending, active, handles, session, message_count,
                   init_result, rotation, detector, det_result, reply, harness, sendobs>>

signal_exit ==
    /\ sig = "cleanup"
    /\ cleanup_browser
    /\ proc' = "exit_signal"
    /\ sig' = "none"
    /\ UNCHANGED <<pc, pending, active, args, profile_dir_global,
                   proxy_server_global, message_count, init_result, rotation,
                   detector, det_result, reply, harness, sendobs>>

-----------------------------------------------------------------------------
(* The process: module load leaves the globals None and the counter 0. *)

\* The session as main() leaves it when init_browser has returned, for a command
\* line without proxy.
SessionUp ==
    /\ args = [profile_dir |-> "profile", proxy |-> "None"]
    /\ profile_dir_global = args.profile_dir
    /\ proxy_server_global = args.proxy
    /\ launched_with = args
    /\ sessions = 1

\* The locals of a send before the send has run.
SendObsInit ==
    /\ lookups = 0
    /\ reloads = 0
    /\ editor = "untouched"
    /\ submits = 0
    /\ send_btn = "none"
    /\ sent_by = "none"
    /\ count_before = 0
    /\ extracted = <<>>
    /\ response_text = <<>>

\* The harness variables of the content assignment and of the stream are idle.
NoInjection == message_text = <<>> /\ editor_html = <<>>
NoStream == gen = "off" /\ chunk_i = 0 /\ stream = <<>>

Init ==
    /\ proc = "starting"
    /\ pc = "main"
    /\ sig = "none"
    /\ pending = 0
    /\ active = 0
    /\ args \in Args
    /\ profile_dir_global = "None"
    /\ proxy_server_global = "None"
    /\ launched_with = NoLaunch
    /\ sessions = 0
    /\ playwright_instance = "none"
    /\ browser_context = "none"
    /\ browser_page = "none"
    /\ message_count = 0
    /\ init_result = "none"
    /\ rotation = "none"
    /\ waited = 0
    /\ generation_started = FALSE
    /\ last_text_length = 0
    /\ stable_count = 0
    /\ det_result = "none"
    /\ since_stop = StableNeeded
    /\ reply = NoReply
    /\ SendObsInit
    /\ script = <<>>
    /\ script_above = FALSE
    /\ NoInjection
    /\ NoStream

Next ==
    \/ main_init_browser
    \/ Arrive
    \/ StartRequest
    \/ ensure_browser
    \/ rotate
    \/ find_input
    \/ inject
    \/ dispatch
    \/ wait_for_response_complete
    \/ extract
    \/ new_chat
    \/ health_check
    \/ BrowserCrash
    \/ signal_handler
    \/ signal_exit

Spec == Init /\ [][Next]_vars

-----------------------------------------------------------------------------
(* The detector alone, fed a scripted sequence of text lengths, one sample  *)
(* per poll, with no stop button; script_above says whether the container   *)
(* count is above the baseline from the first poll on.                      *)

Scripts == [1..MaxScriptLen -> Lens]

InitDet ==
    /\ proc = "serving"
    /\ pc = "wait"
    /\ sig = "none"
    /\ pending = 0
    /\ active = 1
    /\ SessionUp
    /\ playwright_instance = "live"
    /\ browser_context = "live"
    /\ browser_page = "live"
    /\ message_count = 0
    /\ init_result = "none"
    /\ rotation = "none"
    /\ waited = 0
    /\ generation_started = FALSE
    /\ last_text_length = 0
    /\ stable_count = 0
    /\ det_result = "none"
    /\ since_stop = StableNeeded
    /\ reply = NoReply
    /\ SendObsInit
    /\ script \in Scripts
    /\ script_above \in BOOLEAN
    /\ NoInjection
    /\ NoStream

ScriptTick ==
    /\ pc = "wait"
    /\ waited < Len(script)
    /\ WaitTick(script_above, FALSE, script[waited + 1])
    /\ UNCHANGED <<proc, sig, pending, active, handles, session, message_count,
                   init_result, rotation, reply, harness, sendobs>>

NextDet == ScriptTick

SpecDet == InitDet /\ [][NextDet]_vars

-----------------------------------------------------------------------------
(* chat_completions with "stream": true, after the send has returned its     *)
(* content: generate() yields the role chunk, one content chunk per slice of *)
(* chunk_size characters of response_text, the finish chunk and the [DONE]   *)
(* line.  The text is a sequence of characters, each modelled by its         *)
(* position in the text; a chunk is modelled by what its JSON carries.       *)

Min(a, b) == IF a < b THEN a ELSE b

\* Variant: the slice stops one character short.
SliceShort(s, i, j) == SubSeq(s, i + 1, Min(j, Len(s)) - 1)

\* s[i:j] of Python, 0 <= i <= j
Slice(s, i, j) == SubSeq(s, i + 1, Min(j, Len(s)))

Chunk(k, c) == [kind |-> k, content |-> c]

InitStream ==
    /\ proc = "serving"
    /\ pc = "generate"
    /\ sig = "none"
    /\ pending = 0
    /\ active = 1
    /\ SessionUp
    /\ playwright_instance = "live"
    /\ browser_context = "live"
    /\ browser_page = "live"
    /\ message_count = 1
    /\ init_result = "none"
    /\ rotation = "none"
    /\ waited = 0
    /\ generation_started = FALSE
    /\ last_text_length = 0
    /\ stable_count = 0
    /\ since_stop = StableNeeded
    /\ det_result = "none"
    /\ reply = [op |-> "chat", res |-> "content", err |-> "none"]
    /\ lookups = 0
    /\ reloads = 0
    /\ editor = "untouched"
    /\ submits = 1
    /\ send_btn = "none"
    /\ sent_by = "none"
    /\ count_before = 0
    /\ extracted = <<>>
    /\ \E n \in 1..MaxTextLen : response_text = [i \in 1..n |-> i]
    /\ script = <<>>
    /\ script_above = FALSE
    /\ NoInjection
    /\ gen = "role"
    /\ chunk_i = 0
    /\ stream = <<>>

yield_role ==
    /\ gen = "role"
    /\ stream' = Append(stream, Chunk("role", <<>>))
    /\ gen' = "content"
    /\ chunk_i' = 0
    /\ UNCHANGED <<server, sendobs, script, script_above, message_text, editor_html>>

\* for i in range(0, len(response_text), chunk_size): one pass
yield_content ==
    /\ gen = "content"
    /\ chunk_i < Len(response_text)
    /\ stream' = Append(stream,
                        Chunk("content",
                              Slice(response_text, chunk_i, chunk_i + chunk_size)))
    /\ chunk_i' = chunk_i + chunk_size
    /\ UNCHANGED <<server, sendobs, script, script_above, message_text,
                   editor_html, gen>>

\* the range is exhausted: the chunk with finish_reason "stop"
yield_done ==
    /\ gen = "content"
    /\ chunk_i >= Len(response_text)
    /\ stream' = Append(stream, Chunk("finish", <<>>))
    /\ gen' = "sentinel"
    /\ UNCHANGED <<server, sendobs, script, script_above, message_text,
                   editor_html, chunk_i>>

\* data: [DONE]
yield_sentinel ==
    /\ gen = "sentinel"
    /\ stream' = Append(stream, Chunk("sentinel", <<>>))
    /\ gen' = "done"
    /\ UNCHANGED <<server, sendobs, script, script_above, message_text,
                   editor_html, chunk_i>>

NextStream == yield_role \/ yield_content \/ yield_done \/ yield_sentinel

SpecStream == InitStream /\ [][NextStream]_vars

-----------------------------------------------------------------------------
(* Step 4 of the send, the content assignment alone: message_text is escaped *)
(* for a JavaScript template literal, the script evaluates the literal,      *)
(* replaces every line feed by '</p><p>' and assigns '<p>' + ... + '</p>' to *)
(* editor.innerHTML.  A text is a sequence of characters, the markup a       *)
(* sequence of characters and tags.                                          *)

\* The characters of a message: a letter, a line feed (LF), and the two
\* characters the escaping is about, backslash (BS) and backquote (BQ).
Chars == {"a", "LF", "BS", "BQ"}

Messages == UNION {[1..n -> Chars] : n \in 1..MaxMsgLen}

RECURSIVE Escape(_)
\* message_text.replace(backslash, two backslashes).replace(backquote,
\* backslash backquote)
Escape(t) ==
    IF t = <<>> THEN <<>>
    ELSE (IF Head(t) \in {"BS", "BQ"} THEN <<"BS", Head(t)>> ELSE <<Head(t)>>)
            \o Escape(Tail(t))

RECURSIVE Cooked(_)
\* The value of the template literal: a backslash stands for the character
\* after it.
Cooked(t) ==
    IF t = <<>> THEN <<>>
    ELSE IF Head(t) = "BS" /\ Len(t) > 1
            THEN <<t[2]>> \o Cooked(Tail(Tail(t)))
            ELSE <<Head(t)>> \o Cooked(Tail(t))

RECURSIVE ReplaceLineFeeds(_)
\* .replace(/\n/g, '</p><p>')
ReplaceLineFeeds(t) ==
    IF t = <<>> THEN <<>>
    ELSE (IF Head(t) = "LF" THEN <<"</p>", "<p>">> ELSE <<Head(t)>>)
            \o ReplaceLineFeeds(Tail(t))

\* editor.innerHTML = '<p>' + (the literal).replace(/\n/g, '</p><p>') + '</p>'
InnerHTML(msg) == <<"<p>">> \o ReplaceLineFeeds(Cooked(Escape(msg))) \o <<"</p>">>

InitInject ==
    /\ proc = "serving"
    /\ pc = "inject"
    /\ sig = "none"
    /\ pending = 0
    /\ active = 1
    /\ SessionUp
    /\ playwright_instance = "live"
    /\ browser_context = "live"
    /\ browser_page = "live"
    /\ message_count = 0
    /\ init_result = "none"
    /\ rotation = "none"
    /\ waited = 0
    /\ generation_started = FALSE
    /\ last_text_length = 0
    /\ stable_count = 0
    /\ since_stop = StableNeeded
    /\ det_result = "none"
    /\ reply = NoReply
    /\ lookups = 1
    /\ reloads = 0
    /\ editor = "untouched"
    /\ submits = 0
    /\ send_btn = "none"
    /\ sent_by = "none"
    /\ count_before = 0
    /\ extracted = <<>>
    /\ response_text = <<>>
    /\ script = <<>>
    /\ script_above = FALSE
    /\ message_text \in Messages
    /\ editor_html = <<>>
    /\ NoStream

\* The script finds the editor node and assigns.
assign_content ==
    /\ pc = "inject"
    /\ editor_html' = InnerHTML(message_text)
    /\ editor' = EditorAfter("assigned")
    /\ pc' = "dispatch"
    /\ UNCHANGED <<proc, sig, pending, active, handles, session, message_count,
                   init_result, rotation, detector, det_result, reply, lookups,
                   reloads, submits, send_btn, sent_by, count_before, extracted,
                   response_text,
                   script,
                   script_above, message_text, gen, chunk_i, stream>>

NextInject == assign_content

SpecInject == InitInject /\ [][NextInject]_vars

-----------------------------------------------------------------------------
(* Properties *)

SendSucceeded == reply.op = "chat" /\ reply.res = "content"

\* C1 as stated: after a successful send the exchange count is below the
\* rotation threshold, 0 <= message_count < MAX_MESSAGES_PER_CHAT.
C1_CountBelowThreshold ==
    SendSucceeded => (0 <= message_count /\ message_count < MAX_MESSAGES_PER_CHAT)

\* C1: after a successful send, in any sequence of sends and new-chat
\* requests, 1 <= message_count <= MAX_MESSAGES_PER_CHAT: the count reaches
\* the threshold with the 10th send and is reset only by the next send.
C1_CountWithinThreshold ==
    SendSucceeded => (1 <= message_count /\ message_count <= MAX_MESSAGES_PER_CHAT)

C1_Witness == SendSucceeded /\ message_count = MAX_MESSAGES_PER_CHAT

\* C2: a send that reaches the rotation check with message_count at the
\* threshold makes exactly one call of create_new_chat_internal (the
\* fresh-conversation navigation call) and sets the count to zero in the step
\* that precedes the first lookup of the input surface; no later step of the
\* send rotates again; and when that send returns content the count is 1.
C2_RotationBeforeInput ==
    [][ /\ (pc = "rotate" /\ pc' = "find_input" /\ message_count >= MAX_MESSAGES_PER_CHAT)
            => (rotation = "none" /\ rotation' \in {"ok", "failed"} /\ message_count' = 0)
        /\ (pc = "rotate" /\ pc' = "find_input" /\ message_count < MAX_MESSAGES_PER_CHAT)
            => (rotation' = "none" /\ message_count' = message_count)
        /\ (pc \in {"find_input", "inject", "dispatch", "wait", "extract"})
            => rotation' = rotation
        /\ (pc = "extract" /\ rotation # "none" /\ reply'.res = "content")
            => message_count' = 1
      ]_vars

C2_Witness == SendSucceeded /\ rotation = "ok" /\ message_count = 1

SampleSeq == <<0, 0, 5, 5, 12, 12, 12, 12>>

IsSampleSeq == Len(script) >= Len(SampleSeq) /\ SubSeq(script, 1, Len(SampleSeq)) = SampleSeq

\* C3 as stated: on the samples [0,0,5,5,12,12,12,12] the detector declares
\* complete at tick index 6 (after the 7th poll) and not before.
C3_CompleteAtTick6 ==
    IsSampleSeq => /\ (waited < 7 => det_result # "complete")
                   /\ (waited = 7 => det_result = "complete")

\* C3: on the samples [0,0,5,5,12,12,12,12], with the container count above
\* the baseline from the first poll and no stop button, the detector declares
\* complete at tick index 7 (the 8th poll: the third sample equal to the one
\* before it) and at no earlier tick.
C3_CompleteAtTick7 ==
    (IsSampleSeq /\ script_above)
        => /\ (waited < 8 => (det_result = "none" /\ pc = "wait"))
           /\ (waited = 8 => (det_result = "complete" /\ pc = "extract"))

C3_Witness == IsSampleSeq /\ script_above /\ det_result = "complete"

\* C4 as stated (ticks counted from 0, so tick 30 is the 31st poll): in every
\* run where generation has not started and the detector has not found the
\* text stable, the detector is no longer polling after tick 30.
C4_NoResponseByTick30 ==
    (pc = "wait" /\ ~generation_started) => waited <= NoResponseAfter

\* C4: when generation never starts and no non-empty text is ever sampled, the
\* detector declares no-response at the 31st poll (waited = 31) and not
\* before; it declares no-response in no other case.
C4_NoResponseAtPoll31 ==
    /\ (pc = "wait" /\ ~generation_started /\ last_text_length = 0)
          => waited <= NoResponseAfter
    /\ (pc = "extract" /\ det_result = "no_response")
          => (waited = NoResponseAfter + 1 /\ ~generation_started /\ last_text_length = 0)

C4_Witness == pc = "extract" /\ det_result = "no_response"

\* C5: a send whose detector declared no-response never returns content and
\* never returns the extraction-failure error.
C5_NoResponseIsDistinctError ==
    (det_result = "no_response" /\ reply.op = "chat")
        => (reply.res = "error" /\ reply.err # "extraction_failed")

\* C6: the detector returns after at most max_wait polls whatever the page
\* shows (it is polling only while waited < max_wait), and a send whose
\* detector hit the ceiling goes on to the extraction: its outcome is the
\* extracted content or the extraction-failure error, never a timeout error.
C6_DetectorTerminates ==
    /\ waited <= max_wait
    /\ (pc = "wait" => waited < max_wait)
    /\ (det_result = "timeout" /\ proc = "serving")
          => \/ (pc = "extract" /\ waited = max_wait)
             \/ (pc = "idle" /\ reply.op = "chat"
                   /\ (reply.res = "content" \/ reply.err = "extraction_failed"))

C6_Witness == det_result = "timeout" /\ SendSucceeded

\* C7 as stated: at most one browser operation is in flight, teardown
\* included: cleanup_browser never runs while a request handler is in flight.
C7_OneBrowserOperation ==
    active + (IF sig = "cleanup" THEN 1 ELSE 0) <= 1

\* C7: at most one request handler (chat send, new-chat, health) is in flight
\* at any time, and a handler starts only when the previous one has returned;
\* teardown by the signal handler is not part of this serialization.
C7_RequestsSerialized ==
    /\ active \in {0, 1}
    /\ (active = 0) <=> (pc \in {"main", "idle"})

C7_Witness == active = 1 /\ pending > 0 /\ pc = "wait"

C9_UnavailableSessionIsRecovered ==
    [][ (pc \in {"ensure", "new_chat"} /\ ~PingOk /\ pc' # pc)
           => \/ (init_result' = "ok" /\ browser_page' = "live")
              \/ (reply'.res = "error"
                    /\ init_result' \in {"fail_start", "fail_launch", "fail_goto"})
              \/ proc' = "exit_auth"
      ]_vars

\* C10: when init_browser finds the page unauthenticated the handles are torn
\* down and the process ends there, at startup and in a recovery alike: the
\* main thread never leaves the call, so no request is served afterwards.
C10_AuthExpiredStops ==
    init_result = "auth_expired"
        => /\ proc = "exit_auth"
           /\ playwright_instance = "none"
           /\ browser_context = "none"
           /\ browser_page = "none"
           /\ pc \in {"main", "ensure"}
           /\ reply = NoReply

C10_Witness == init_result = "auth_expired" /\ proc = "exit_auth" /\ pc = "ensure"

-----------------------------------------------------------------------------
(* Input surface not found *)

InputNotFound == reply = ChatError("input_not_found")

\* C11 as stated: a send whose first lookup of the input surface misses makes
\* exactly one reload and one further lookup, and if that misses too the
\* request fails with HTTP 500 and a text referring to the login, nothing
\* having been injected or submitted.
C11_MissIsAlwaysRetried ==
    /\ reloads = 1 => lookups = 2
    /\ InputNotFound => /\ HttpStatus(reply) = 500
                        /\ MentionsLogin(reply.err)
                        /\ editor = "untouched" /\ submits = 0

\* C11: a send whose first lookup misses makes exactly one reload; if the reload
\* returns, exactly one further lookup follows, and if the reload raises, the
\* send ends there with the generic send-failure error and no further lookup.
\* A send that reports "input not found" has made two lookups and one reload,
\* has injected and submitted nothing, is answered with HTTP 500 and its text
\* refers to the login.
C11_InputNotFound ==
    /\ lookups <= 2 /\ reloads <= 1
    /\ lookups = 2 => reloads = 1
    /\ (reloads = 1 /\ lookups = 1) => reply = ChatError("exception")
    /\ InputNotFound => /\ lookups = 2 /\ reloads = 1
                        /\ editor = "untouched" /\ submits = 0
                        /\ HttpStatus(reply) = 500
                        /\ MentionsLogin(reply.err)

C11_Witness == InputNotFound /\ lookups = 2 /\ reloads = 1 /\ pc = "idle"

-----------------------------------------------------------------------------
(* Extraction of the reply *)

ExtractionFailed == reply = ChatError("extraction_failed")

\* C12: step 7 extracts once; it extracts a second time exactly when the first
\* text is empty, and never a third time; if the last text extracted is empty
\* the send returns the extraction-failure error and message_count is left as
\* it was; otherwise that text is returned as the content and message_count
\* is incremented.
C12_ExtractionRetriedOnce ==
    [][ (pc = "extract" /\ pc' = "idle") =>
          /\ Len(extracted') \in {1, 2}
          /\ (Len(extracted') = 2) <=> (extracted'[1].text = <<>>)
          /\ LET last == extracted'[Len(extracted')].text
             IN  IF last = <<>>
                    THEN /\ reply' = ChatError("extraction_failed")
                         /\ message_count' = message_count
                    ELSE /\ reply' = [op |-> "chat", res |-> "content", err |-> "none"]
                         /\ response_text' = last
                         /\ message_count' = message_count + 1 ]_vars

C12_Witness ==
    /\ ExtractionFailed /\ pc = "idle"
    /\ Len(extracted) = 2 /\ extracted[1].text = <<>> /\ extracted[2].text = <<>>

\* The number of elements of seq that are in S.
CountIn(seq, S) == Cardinality({i \in DOMAIN seq : seq[i] \in S})

\* C13 as stated: the bytes of an extracted (blob) image that has been resolved
\* are persisted and the reply carries a retrieval URL (/media/{filename}) for
\* them, one per resolved image.
C13_ResolvedImageIsStored ==
    \A i \in DOMAIN extracted :
       CountIn(extracted[i].text, {"media_url"})
          = CountIn(extracted[i].page.images, {"blob_ok"})

\* The notice a blob image that could not be resolved is replaced by.
Notice(k) == IF k = "blob_empty" THEN "notice_unavailable" ELSE "notice_failed"

\* C14: whenever an extraction meets a blob image whose resolution yields
\* nothing or raises, the text it returns still begins with the reply's text
\* (if the reply has any), carries a notice at the place of that image among
\* the images, one notice per such image, and that text is what the send
\* returns as content: the send succeeds.
C14_FailedImageBecomesNotice ==
    \A i \in DOMAIN extracted :
       LET p == extracted[i].page
           t == extracted[i].text
           base == IF p.text THEN 1 ELSE 0
       IN  \A j \in DOMAIN p.images :
              p.images[j] \in {"blob_empty", "blob_raise"} =>
                 LET at == base + CountIn(SubSeq(p.images, 1, j),
                                          ImageKinds \ {"other"})
                 IN  /\ p.text => t[1] = "text"
                     /\ at <= Len(t) /\ t[at] = Notice(p.images[j])
                     /\ CountIn(t, {"notice_unavailable"})
                           = CountIn(p.images, {"blob_empty"})
                     /\ CountIn(t, {"notice_failed"})
                           = CountIn(p.images, {"blob_raise"})
                     /\ i = Len(extracted)
                     /\ response_text = t
                     /\ SendSucceeded

C14_Witness ==
    /\ SendSucceeded /\ pc = "idle"
    /\ \E i \in DOMAIN extracted :
          /\ extracted[i].page.text
          /\ extracted[i].page.images = <<"blob_raise">>
          /\ response_text = <<"text", "notice_failed">>

-----------------------------------------------------------------------------
(* Streaming *)

\* The place of a chunk in the order role, content, finish, sentinel.
StreamRank(kind) == CASE kind = "role" -> 1
                      [] kind = "content" -> 2
                      [] kind = "finish" -> 3
                      [] kind = "sentinel" -> 4

RECURSIVE Joined(_)
\* The contents of the content chunks of a stream, joined in emission order.
Joined(chunks) ==
    IF chunks = <<>> THEN <<>>
    ELSE (IF Head(chunks).kind = "content" THEN Head(chunks).content ELSE <<>>)
            \o Joined(Tail(chunks))

\* C15: for every reply text of 1..MaxTextLen characters, when generate() has
\* finished the contents of its content chunks joined in emission order are
\* the text the non-streaming answer carries as message.content, and the
\* stream is the role chunk, then only content chunks, then the finish chunk,
\* then the [DONE] sentinel; while it runs, what has been emitted is a prefix
\* of that.
C15_StreamReproducesContent ==
    /\ \A k, l \in DOMAIN stream :
          k < l => StreamRank(stream[k].kind) <= StreamRank(stream[l].kind)
    /\ \A kind \in {"role", "finish", "sentinel"} :
          LET n == Cardinality({k \in DOMAIN stream : stream[k].kind = kind})
          IN  n <= 1 /\ (gen = "done" => n = 1)
    /\ Joined(stream) = SubSeq(response_text, 1, Len(Joined(stream)))
    /\ gen \in {"sentinel", "done"} => Joined(stream) = response_text

C15_Witness ==
    /\ gen = "done"
    /\ Len(response_text) > chunk_size
    /\ Len(response_text) % chunk_size # 0
    /\ Joined(stream) = response_text

-----------------------------------------------------------------------------
(* Explicit new chat *)

\* C16: a new-chat request, at whatever message_count it is served, ends its
\* one step either with the success answer (status 200) and message_count
\* zero, or with the failure answer (status 500) and message_count as it was;
\* it has gone through none of the steps of a send.
C16_NewChatResetsOnSuccess ==
    [][ (pc = "new_chat" /\ pc' # pc) =>
          /\ pc' = "idle"
          /\ reply'.op = "new_chat"
          /\ \/ /\ reply'.res = "ok" /\ HttpStatus(reply') = 200
                /\ message_count' = 0
             \/ /\ reply'.res = "error" /\ HttpStatus(reply') = 500
                /\ message_count' = message_count
          /\ submits' = 0 /\ lookups' = 0 ]_vars

C16_Witness ==
    /\ reply.op = "new_chat" /\ reply.res = "error" /\ pc = "idle"
    /\ message_count = MAX_MESSAGES_PER_CHAT

-----------------------------------------------------------------------------
(* The detector: stop button, differing samples *)

\* C17: after every poll at which a stop button was visible (since_stop = 0),
\* generation_started is true, stable_count is 0 and the detector has returned
\* neither "complete" nor "no response"; stable_count never exceeds the number
\* of polls made since a stop button was last visible, so "complete" is
\* returned only when StableNeeded stable samples have been counted since.
C17_StopButtonRestartsCount ==
    /\ since_stop = 0 => /\ generation_started
                         /\ stable_count = 0
                         /\ det_result \notin {"complete", "no_response"}
    /\ stable_count <= since_stop
    /\ det_result = "complete" /\ pc = "extract"
          => stable_count = StableNeeded /\ since_stop = StableNeeded

C17_Witness ==
    /\ pc = "wait" /\ since_stop = 0
    /\ last_text_length > 0 /\ waited > StableNeeded
    /\ generation_started /\ stable_count = 0

\* The polls so far at which a text length was sampled.
Sampled(upto) == {k \in 1..upto : script_above \/ k > SampleAfter}

\* The samples in idx that are among the n most recent of idx.
MostRecent(idx, n) == {k \in idx : Cardinality({j \in idx : j >= k}) <= n}

\* C18 as stated: whatever its value, a sample that differs from the remembered
\* length resets stable_count to 0 and becomes the remembered length, and
\* "complete" is returned only when the StableNeeded + 1 most recent samples
\* are equal.
C18_AnyDifferingSampleResets ==
    [][ (pc = "wait" /\ waited' = waited + 1) =>
          LET len == script[waited']
          IN  /\ (waited' \in Sampled(waited') /\ len # last_text_length)
                    => stable_count' = 0 /\ last_text_length' = len
              /\ det_result' = "complete"
                    => LET recent == MostRecent(Sampled(waited'), StableNeeded + 1)
                       IN  /\ Cardinality(recent) = StableNeeded + 1
                           /\ \A k \in recent : script[k] = len ]_vars

\* C18: a non-empty sample that differs from the remembered length resets
\* stable_count to 0 and becomes the remembered length; an empty sample (length
\* 0) changes neither; "complete" is returned only when the StableNeeded + 1
\* most recent non-empty samples are equal.
C18_DifferingSampleResets ==
    [][ (pc = "wait" /\ waited' = waited + 1) =>
          LET len == script[waited']
              taken == waited' \in Sampled(waited')
          IN  /\ (taken /\ len > 0 /\ len # last_text_length)
                    => stable_count' = 0 /\ last_text_length' = len
              /\ (taken /\ len = 0)
                    => stable_count' = stable_count
                       /\ last_text_length' = last_text_length
              /\ det_result' = "complete"
                    => LET nonempty == {k \in Sampled(waited') : script[k] > 0}
                           recent == MostRecent(nonempty, StableNeeded + 1)
                       IN  /\ Cardinality(recent) = StableNeeded + 1
                           /\ \A k \in recent : script[k] = len ]_vars

C18_Witness ==
    /\ script_above /\ waited = 4
    /\ script[1] = 5 /\ script[2] = 5 /\ script[3] = 5 /\ script[4] = 12
    /\ stable_count = 0 /\ last_text_length = 12

-----------------------------------------------------------------------------
(* Content assignment *)

RECURSIVE SplitLines(_)
\* The lines of a text: what stands between its line feeds.
SplitLines(t) ==
    IF t = <<>> THEN << <<>> >>
    ELSE LET rest == SplitLines(Tail(t))
         IN  IF Head(t) = "LF" THEN << <<>> >> \o rest
                               ELSE << <<Head(t)>> \o Head(rest) >> \o Tail(rest)

RECURSIVE Blocks(_)
\* The paragraph blocks of a markup, each with what it holds.
Blocks(h) ==
    IF h = <<>> THEN <<>>
    ELSE LET rest == Blocks(Tail(h))
         IN  CASE Head(h) = "<p>"  -> rest
               [] Head(h) = "</p>" -> << <<>> >> \o rest
               [] OTHER -> << <<Head(h)>> \o Head(rest) >> \o Tail(rest)

\* C19 as stated: the content assigned is one block per line of the message,
\* in order, a non-empty line as its characters and an empty line as a block
\* holding a line-break placeholder, never an empty block.
C19_EmptyLineKeepsPlaceholder ==
    editor_html # <<>> =>
       LET lines == SplitLines(message_text)
       IN  Blocks(editor_html)
              = [i \in DOMAIN lines |->
                    IF lines[i] = <<>> THEN <<"<br>">> ELSE lines[i]]

\* C20 as stated: whenever the content assignment fails, by raising or by
\* finding no editor node to assign to, the message is typed instead, so every
\* submission is made with the message in the input surface.
C20_SubmitsOnlyWithMessage ==
    [][ (pc = "dispatch" /\ submits' = submits + 1) => editor = "message" ]_vars

-----------------------------------------------------------------------------
(* Dispatch *)

\* C21: a send that leaves the dispatch step for the wait has made exactly one
\* submission there, its only one: by the button when a button was found and
\* its click returned, otherwise (no button, or a click that raised) by the
\* Enter key; a send whose key press raises makes no submission and ends with
\* the send-failure error without waiting; the wait is entered from the
\* dispatch step only, so never without a submission.
C21_SubmitsOnceBeforeWait ==
    [][ /\ (pc = "dispatch" /\ pc' # pc) =>
             /\ submits = 0
             /\ sent_by' = "button" <=> send_btn' = "clicked"
             /\ sent_by' = "enter" => send_btn' \in {"click_failed", "absent"}
             /\ IF pc' = "wait"
                   THEN submits' = 1 /\ sent_by' \in {"button", "enter"}
                   ELSE /\ pc' = "idle" /\ reply' = ChatError("exception")
                        /\ submits' = 0 /\ sent_by' = "none"
                        /\ send_btn' \in {"click_failed", "absent"}
        /\ (pc # "wait" /\ pc' = "wait") => pc = "dispatch"
        /\ pc \in {"wait", "extract"} => submits = 1 /\ submits' = submits ]_vars

C21_Witness ==
    /\ pc = "wait" /\ waited = 0
    /\ send_btn = "click_failed" /\ sent_by = "enter" /\ submits = 1

-----------------------------------------------------------------------------
(* Session recovery *)

\* C22: a recovery (ensure_browser finding that the page does not answer) tears
\* the session in being down before it launches, so the process never has
\* more than one browser session; whatever session there is was launched with
\* the profile directory and proxy of the command line, which is what the two
\* globals hold from the first init_browser on (so whenever the process
\* serves), and the command line itself never changes.
C22_RecoveryKeepsConfiguration ==
    [][ /\ args' = args
        /\ sessions' <= 1
        /\ sessions' = 1 <=> launched_with' # NoLaunch
        /\ launched_with' \in {NoLaunch, args}
        /\ (pc = "ensure" /\ init_result' # init_result) =>
              /\ ~PingOk
              /\ profile_dir_global' = args.profile_dir
              /\ proxy_server_global' = args.proxy
              /\ init_result' \in {"ok", "fail_goto"}
                    => sessions' = 1 /\ launched_with' = args
              /\ init_result' \in {"auth_expired", "fail_start", "fail_launch"}
                    => sessions' = 0
        /\ profile_dir_global' \in {"None", args.profile_dir}
        /\ proxy_server_global' \in {"None", args.proxy}
        /\ proc' = "serving" => /\ profile_dir_global' = args.profile_dir
                                /\ proxy_server_global' = args.proxy ]_vars

C22_Witness ==
    /\ pc = "rotate" /\ init_result = "ok"
    /\ sessions = 1 /\ launched_with = args /\ args.proxy = "proxy"
    /\ message_count > 0

-----------------------------------------------------------------------------
(* Which reply is returned *)

\* C23 as stated: the detector returns "complete", and the send goes on to
\* return the text, only for a reply container that appeared after the
\* submission; at the least, then, only in a wait that has seen the container
\* count above its baseline or a stop button (generation_started).
C23_CompleteOnlyOnNewReply ==
    (pc = "extract" /\ det_result = "complete") => generation_started

-----------------------------------------------------------------------------
(* The exchange count *)

\* C24 as stated: every step that takes message_count from a positive value to
\* zero is a rotation or a new-chat whose navigation to a fresh conversation
\* has just returned.
C24_ResetOnlyAfterNavigation ==
    [][ (message_count > 0 /\ message_count' = 0) =>
           \/ (pc = "rotate" /\ rotation' = "ok")
           \/ (pc = "new_chat" /\ reply' = [op |-> "new_chat", res |-> "ok",
                                            err |-> "none"]) ]_vars

SendReturnedError == reply.op = "chat" /\ reply.res = "error" /\ pc = "idle"

-----------------------------------------------------------------------------
(* Recovery after a failed reinitialization *)

RecoveryFailed == init_result \in {"fail_start", "fail_launch", "fail_goto"}

\* C26: every chat request begins with the ping; when the page answers, no
\* reinitialization is made and the send goes on; when it does not, whatever
\* the handles a failed reinitialization left, a reinitialization is attempted:
\* if it raises, the request returns the browser-unavailable error and the
\* server is free for the next request; if it returns, the send goes on with a
\* page that answers (the one other outcome, the sign-in page, ends the
\* process).  The ping step can always be taken.
C26_RecoveryIsRetried ==
    [][ /\ (pc = "idle" /\ pc' \notin {"idle", "new_chat", "health"}) => pc' = "ensure"
        /\ (pc # "rotate" /\ pc' = "rotate") => pc = "ensure"
        /\ (pc = "ensure" /\ proc = "serving" /\ sig = "none") => ENABLED ensure_browser
        /\ (pc = "ensure" /\ sig = "none" /\ (pc' # pc \/ proc' # proc)) =>
              IF browser_page = "live"
                 THEN init_result' = "none" /\ pc' = "rotate" /\ UNCHANGED handles
                 ELSE /\ init_result' \in InitOutcomes
                      /\ init_result' = "ok"
                            => pc' = "rotate" /\ browser_page' = "live"
                      /\ RecoveryFailed'
                            => /\ reply' = ChatError("browser_unavailable")
                               /\ pc' = "idle" /\ active' = 0
                               /\ proc' = "serving"
        /\ (RecoveryFailed /\ pc = "idle" /\ proc = "serving" /\ sig = "none"
               /\ pending > 0) => ENABLED StartRequest ]_vars

C26_Witness ==
    /\ RecoveryFailed /\ init_result = "fail_launch"
    /\ reply = ChatError("browser_unavailable") /\ pc = "idle" /\ proc = "serving"
    /\ playwright_instance = "live" /\ browser_context = "none"
    /\ message_count > 0

=============================================================================
